---------------------------- MODULE Spec2Model ----------------------------
(***************************************************************************)
(* A model of src/src/validator/obligation_checker.h:                      *)
(*   - ObligationChecker: the configuration fields, the synchronous        *)
(*     adapter check_wait and the contract of the pure virtual check;      *)
(*   - ArmMemory: the access log, the two timeline variables and the       *)
(*     inline operations of the header.                                    *)
(* Spec / FairSpec describe concurrent check_wait calls on one checker,    *)
(* ArmSpec describes sequences of operations on two ArmMemory objects.     *)
(***************************************************************************)
EXTENDS Integers, Sequences, FiniteSets

(* ------------------------------ bounds --------------------------------- *)

\* number of check_wait calls running concurrently on the one checker
NumCalls == 2

\* number of accesses (reads and writes) recorded by the two memories
\* together
MaxAccesses == 2

\* the basic blocks of a Cfg are 0..MaxBlock, in lexical order
MaxBlock == 2

\* the longest CfgPath passed to is_jump
MaxPathLen == 3

\* the most accesses in the combined list that cell assignment works on
MaxCellAccesses == 3

Calls == 1..NumCalls

VARIABLES
  \* ObligationChecker (protected fields)
  alias_strategy_, basic_block_ghosts_, nacl_, fixpoint_up_,
  \* check_wait, per call: position of the calling thread and its locals
  pc, await_complete, await_result, await_indet, ret,
  \* the implementation of check, per call
  job, outcome, cb, cb_arg, invoked,
  \* ArmMemory, per object: its fields
  heap_, start_variable_, final_heap_, finalize_,
  constraints_, access_list_, accesses_,
  \* the temporaries handed out so far by tmp_var
  tmp_count,
  \* the last ArmMemory operation called, what it returned, and whether
  \* finalize_heap was ever called on an object
  arm_call, arm_ret, finalize_called,
  \* the last is_jump call and what it returned
  jump,
  \* one ARMS_RACE check: its obligation, the position and the response of
  \* each of the two strategy runs, the result delivered and the number of
  \* callback invocations
  race,
  \* ArmMemory, cell assignment: its fields and the index the recursion is at
  assignment,
  \* the last configuration call on a checker and what it returned; per
  \* checker, the last strategy set on it and the constructor that made it
  conf

cfgvars == <<alias_strategy_, basic_block_ghosts_, nacl_, fixpoint_up_>>
waitvars == <<pc, await_complete, await_result, await_indet, ret>>
implvars == <<job, outcome, cb, cb_arg, invoked>>
checkvars == <<cfgvars, waitvars, implvars>>
memvars == <<heap_, start_variable_, final_heap_, finalize_,
             constraints_, access_list_, accesses_>>
armvars == <<memvars, tmp_count, arm_call, arm_ret, finalize_called>>
jumpvars == <<jump>>
racevars == <<race>>
cellvars == <<assignment>>
confvars == <<conf>>
othervars == <<jumpvars, racevars, cellvars, confvars>>
vars == <<checkvars, armvars, othervars>>

\* the arguments of the last is_jump call, and what it returned
jump_call == jump.call
jump_ret == jump.ret

\* the obligation of the race, the position and the response of each
\* strategy run, the result delivered, the number of callback invocations
race_in == race.ob
race_pc == race.pc
race_resp == race.resp
race_result == race.result
race_invoked == race.invoked

\* lines 370-375, and the argument of recurse_cell_assignment
cells_ == assignment.cells_
all_accesses_ == assignment.all_accesses_
access_offsets_ == assignment.access_offsets_
access_index == assignment.access_index

\* the last configuration call and what it returned; per checker, the
\* last strategy set on it and the constructor that made it
conf_call == conf.call
conf_ret == conf.ret
last_set == conf.last_set
made_by == conf.made_by

(* ------------------------- ObligationChecker --------------------------- *)

AliasStrategy == {"BASIC", "FLAT", "ARM", "ARMS_RACE"}

\* The three bool members of Result, which Result() leaves uninitialized.
Flags == {"verified", "has_ceg", "has_error"}

\* Result's members in declaration order, grouped by type: the implicit
\* copy assignment copies member by member, bools, then the string, then
\* the four CpuState snapshots.
MemberGroups ==
  << {"verified", "has_ceg", "has_error"},
     {"error_message"},
     {"target_ceg", "rewrite_ceg", "target_final_ceg", "rewrite_final_ceg"} >>

Members == MemberGroups[1] \cup MemberGroups[2] \cup MemberGroups[3]

\* Result(): the string and the snapshots are default constructed, the
\* three bools hold indeterminate values (tracked in await_indet).
DefaultResult ==
  [verified |-> FALSE, has_ceg |-> FALSE, has_error |-> FALSE,
   error_message |-> "",
   target_ceg |-> "cs0", rewrite_ceg |-> "cs0",
   target_final_ceg |-> "cs0", rewrite_final_ceg |-> "cs0"]

\* The results an implementation of check delivers: proof, counterexample
\* with its four snapshots, internal error with its message.
OutcomesConflated ==
  { [DefaultResult EXCEPT !.verified = TRUE],
    [DefaultResult EXCEPT !.has_ceg = TRUE, !.has_error = TRUE,
                          !.error_message = "timeout"] }
Outcomes ==
  { [DefaultResult EXCEPT !.verified = TRUE],
    [DefaultResult EXCEPT !.has_ceg = TRUE,
                          !.target_ceg = "t_in", !.rewrite_ceg = "r_in",
                          !.target_final_ceg = "t_out",
                          !.rewrite_final_ceg = "r_out"],
    [DefaultResult EXCEPT !.has_error = TRUE, !.error_message = "timeout"] }

None == [none |-> TRUE]

\* The local of check_wait the callback of call c captures by reference.
CapturedShared(c) == 1
Captured(c) == c

\* await_result = result, one member group at a time.
CopyGroupSkipFlags(dst, src, k) ==
  [f \in Members |-> IF f \in MemberGroups[k] /\ k # 1 THEN src[f] ELSE dst[f]]
CopyGroup(dst, src, k) ==
  [f \in Members |-> IF f \in MemberGroups[k] THEN src[f] ELSE dst[f]]

\* The body of the callback: the copy, then the release store of the flag.
CallbackBodyStoreFirst == <<"store", "copy", "copy", "copy">>
CallbackBody == <<"copy", "copy", "copy", "store">>

\* which member group the copy step at position k of the body copies
GroupAt(k) == Cardinality({j \in 1..k : CallbackBody[j] = "copy"})

CallbackReturned(c) == cb[c] = Len(CallbackBody) + 1
CallbackRunning(c) == cb[c] \in 1..Len(CallbackBody)

\* await_complete.load(acquire) as the loop condition sees it
LoadNeverSet(c) == FALSE
Load(c) == await_complete[c]

\* The values a read of a Result can produce: an indeterminate bool reads
\* as either value.
Resolve(r, indet) ==
  { [f \in Members |-> IF f \in indet THEN b[f] ELSE r[f]] :
      b \in [Flags -> BOOLEAN] }

\* The checker objects: the one check_wait is called on, and a second one
\* that the copy constructor can make from it.
Checkers == {"oc", "copy"}

\* ObligationChecker(): the four setters, called with the defaults, for
\* every checker; then the state of check_wait before any call.
CheckerInit ==
  /\ alias_strategy_ = [o \in Checkers |-> "FLAT"]
  /\ nacl_ = [o \in Checkers |-> FALSE]
  /\ basic_block_ghosts_ = [o \in Checkers |-> TRUE]
  /\ fixpoint_up_ = [o \in Checkers |-> FALSE]
  /\ pc = [c \in Calls |-> "start"]
  /\ await_complete = [c \in Calls |-> FALSE]
  /\ await_result = [c \in Calls |-> DefaultResult]
  /\ await_indet = [c \in Calls |-> {}]
  /\ ret = [c \in Calls |-> None]
  /\ job = [c \in Calls |-> "none"]
  /\ outcome = [c \in Calls |-> None]
  /\ cb = [c \in Calls |-> 0]
  /\ cb_arg = [c \in Calls |-> None]
  /\ invoked = [c \in Calls |-> 0]

\* check_wait, lines 148-154: the locals and the callback are constructed.
CheckWaitEnter(c) ==
  /\ pc[c] = "start"
  /\ pc' = [pc EXCEPT ![c] = "check"]
  /\ await_complete' = [await_complete EXCEPT ![c] = FALSE]
  /\ await_result' = [await_result EXCEPT ![c] = DefaultResult]
  /\ await_indet' = [await_indet EXCEPT ![c] = Flags]
  /\ UNCHANGED <<ret, cfgvars, implvars, armvars, othervars>>

\* the callback is entered with argument r
InvokeCallback(c, r) ==
  /\ cb' = [cb EXCEPT ![c] = 1]
  /\ cb_arg' = [cb_arg EXCEPT ![c] = r]
  /\ invoked' = [invoked EXCEPT ![c] = @ + 1]

\* check, mode (1): block, call the callback in the same thread, return.
CheckInline(c) ==
  /\ pc[c] = "check"
  /\ \E r \in Outcomes :
       /\ outcome' = [outcome EXCEPT ![c] = r]
       /\ InvokeCallback(c, r)
  /\ pc' = [pc EXCEPT ![c] = "inline"]
  /\ UNCHANGED <<job, await_complete, await_result, await_indet, ret,
                 cfgvars, armvars, othervars>>

\* check, mode (2): start an asynchronous job and return.
CheckAsync(c) ==
  /\ pc[c] = "check"
  /\ pc' = [pc EXCEPT ![c] = "poll"]
  /\ job' = [job EXCEPT ![c] = "pending"]
  /\ UNCHANGED <<outcome, cb, cb_arg, invoked, await_complete, await_result,
                 await_indet, ret, cfgvars, armvars, othervars>>

\* check, mode (3): block, then start an asynchronous job that will call
\* the callback, and return.
CheckHybrid(c) ==
  /\ pc[c] = "check"
  /\ \E r \in Outcomes : outcome' = [outcome EXCEPT ![c] = r]
  /\ pc' = [pc EXCEPT ![c] = "poll"]
  /\ job' = [job EXCEPT ![c] = "determined"]
  /\ UNCHANGED <<cb, cb_arg, invoked, await_complete, await_result,
                 await_indet, ret, cfgvars, armvars, othervars>>

\* the inline callback has returned and check returns to check_wait
CheckReturn(c) ==
  /\ pc[c] = "inline"
  /\ CallbackReturned(c)
  /\ pc' = [pc EXCEPT ![c] = "poll"]
  /\ UNCHANGED <<await_complete, await_result, await_indet, ret,
                 cfgvars, implvars, armvars, othervars>>

\* the asynchronous job determines the outcome of the check
JobDetermine(c) ==
  /\ job[c] = "pending"
  /\ \E r \in Outcomes : outcome' = [outcome EXCEPT ![c] = r]
  /\ job' = [job EXCEPT ![c] = "determined"]
  /\ UNCHANGED <<cb, cb_arg, invoked, waitvars, cfgvars, armvars, othervars>>

\* whether the job of call c may call the callback now
JobMayInvokeAgain(c) == job[c] \in {"determined", "called"} /\ invoked[c] < 2
                        /\ ~CallbackRunning(c)
JobMayInvoke(c) == job[c] = "determined"

\* the asynchronous job calls the callback with the outcome
JobInvoke(c) ==
  /\ JobMayInvoke(c)
  /\ InvokeCallback(c, outcome[c])
  /\ job' = [job EXCEPT ![c] = "called"]
  /\ UNCHANGED <<outcome, waitvars, cfgvars, armvars, othervars>>

\* line 152: await_result = result, one member group
CallbackCopy(c) ==
  /\ CallbackRunning(c)
  /\ CallbackBody[cb[c]] = "copy"
  /\ await_result' =
       [await_result EXCEPT ![Captured(c)] = CopyGroup(@, cb_arg[c], GroupAt(cb[c]))]
  /\ await_indet' =
       [await_indet EXCEPT ![Captured(c)] =
          {f \in @ : CopyGroup([g \in Members |-> 0], [g \in Members |-> 1],
                               GroupAt(cb[c]))[f] = 0}]
  /\ cb' = [cb EXCEPT ![c] = @ + 1]
  /\ UNCHANGED <<pc, await_complete, ret, job, outcome, cb_arg,
                 invoked, cfgvars, armvars, othervars>>

\* line 153: await_complete.store(true, release)
CallbackStore(c) ==
  /\ CallbackRunning(c)
  /\ CallbackBody[cb[c]] = "store"
  /\ await_complete' = [await_complete EXCEPT ![Captured(c)] = TRUE]
  /\ cb' = [cb EXCEPT ![c] = @ + 1]
  /\ UNCHANGED <<pc, await_result, await_indet, ret, job,
                 outcome, cb_arg, invoked, cfgvars, armvars, othervars>>

\* lines 159-161: one evaluation of the loop condition; the loop is left
\* when the flag is seen set, otherwise the thread yields, which changes
\* no state, and evaluates the condition again.
Poll(c) ==
  /\ pc[c] = "poll"
  /\ pc' = [pc EXCEPT ![c] = IF Load(c) THEN "return" ELSE "poll"]
  /\ UNCHANGED <<await_complete, await_result, await_indet, ret, cfgvars,
                 implvars, armvars, othervars>>

\* line 163: return await_result
Return(c) ==
  /\ pc[c] = "return"
  /\ \E r \in Resolve(await_result[c], await_indet[c]) :
       ret' = [ret EXCEPT ![c] = r]
  /\ pc' = [pc EXCEPT ![c] = "done"]
  /\ UNCHANGED <<await_complete, await_result, await_indet, cfgvars,
                 implvars, armvars, othervars>>

\* the callback runs on the thread that called check (mode 1) ...
InlineCallbackStep(c) ==
  /\ pc[c] = "inline"
  /\ CallbackCopy(c) \/ CallbackStore(c)

\* ... or on the thread of the asynchronous job (modes 2 and 3)
JobCallbackStep(c) ==
  /\ pc[c] # "inline"
  /\ CallbackCopy(c) \/ CallbackStore(c)

\* the steps of the thread that called check_wait
CallerStep(c) ==
  \/ CheckWaitEnter(c)
  \/ CheckInline(c)
  \/ CheckAsync(c)
  \/ CheckHybrid(c)
  \/ InlineCallbackStep(c)
  \/ CheckReturn(c)
  \/ Poll(c)
  \/ Return(c)

\* the steps of the thread that runs the asynchronous job
JobStep(c) ==
  \/ JobDetermine(c)
  \/ JobInvoke(c)
  \/ JobCallbackStep(c)

(* ------------------------ check_wait and check ------------------------- *)

\* check_wait of call c has returned
Returned(c) == pc[c] = "done"

\* the callback of call c ran on the thread that called check
RanInline(c) == invoked[c] > 0 /\ job[c] = "none"

\* the callback of call c has written every member and the flag
Published(c) ==
  /\ CallbackReturned(c)
  /\ await_complete[c]
  /\ await_indet[c] = {}
  /\ await_result[c] = cb_arg[c]

ExactlyOneFlag(r) == Cardinality({f \in Flags : r[f]}) = 1

\* C1: for an implementation that invokes the callback once, and for every
\* timing of that invocation (inline before check returns, from the job
\* before the first poll, from the job after polls), the Result check_wait
\* returns equals, member for member, the Result passed to the callback.
C1_ReturnsCallbackResult ==
  \A c \in Calls :
    Returned(c) =>
      /\ cb_arg[c] \in Outcomes
      /\ \A f \in Members : ret[c][f] = cb_arg[c][f]

\* C1 witness: one call returned after an inline callback, the other after a
\* callback from the asynchronous job, with a counterexample
C1_Witness ==
  /\ Returned(1) /\ RanInline(1)
  /\ Returned(2) /\ job[2] = "called"
  /\ cb_arg[2].has_ceg /\ ret[2].target_final_ceg = "t_out"

\* C2: per call of check the callback is invoked exactly once: never
\* twice, only after the outcome is determined and with that outcome, and,
\* once check has been called, eventually.
C2_CallbackExactlyOnce ==
  /\ [](\A c \in Calls :
          /\ invoked[c] <= 1
          /\ invoked[c] = 1 => outcome[c] \in Outcomes /\ cb_arg[c] = outcome[c]
          /\ Returned(c) => invoked[c] = 1)
  /\ \A c \in Calls : (pc[c] = "check") ~> (invoked[c] = 1)

\* C2 witness: both calls are over, one served inline and one by the job,
\* each with one invocation
C2_Witness ==
  /\ Returned(1) /\ RanInline(1) /\ invoked[1] = 1
  /\ Returned(2) /\ job[2] = "called" /\ invoked[2] = 1

\* C3: every Result handed to a callback or returned by check_wait has
\* exactly one of verified, has_ceg, has_error set; has_error never comes
\* with has_ceg or verified.
C3_ExactlyOneFlag ==
  \A c \in Calls :
    /\ invoked[c] > 0 =>
         /\ ExactlyOneFlag(cb_arg[c])
         /\ cb_arg[c].has_error => ~cb_arg[c].has_ceg /\ ~cb_arg[c].verified
    /\ Returned(c) =>
         /\ ExactlyOneFlag(ret[c])
         /\ ret[c].has_error => ~ret[c].has_ceg /\ ~ret[c].verified

\* C3 witness: an internal error was delivered and returned, next to a proof
C3_Witness ==
  /\ Returned(1) /\ ret[1].has_error /\ ret[1].error_message = "timeout"
  /\ Returned(2) /\ ret[2].verified

\* C4: the callback stores the whole result before it sets the flag,
\* check_wait leaves its loop and returns only after the callback has set
\* the flag, so what it returns is never the default constructed nor a
\* partly written result, and nothing writes the stored result or the flag
\* once check_wait has returned.
C4_ReturnsAfterPublication ==
  /\ [](\A c \in Calls :
          /\ await_complete[c] => Published(c)
          /\ pc[c] \in {"return", "done"} => Published(c)
          /\ Returned(c) => ret[c] = await_result[c])
  /\ [][\A c \in Calls :
          Returned(c) =>
            UNCHANGED <<await_result[c], await_indet[c], await_complete[c]>>]_vars

\* C4 witness: one call has returned a counterexample delivered by the job,
\* all members written, while the other is polling and its callback has
\* written the flags but neither the snapshots nor the completion flag
C4_Witness ==
  \E c, d \in Calls :
    /\ Returned(c) /\ job[c] = "called"
    /\ ret[c].has_ceg /\ ret[c].rewrite_final_ceg = "r_out"
    /\ pc[d] = "poll" /\ CallbackRunning(d) /\ ~await_complete[d]
    /\ cb_arg[d].has_ceg /\ await_result[d].has_ceg
    /\ await_result[d].target_ceg = "cs0"

\* C5: with the polling thread and the thread that runs the check
\* scheduled fairly, an invoked callback leads to the return of check_wait;
\* after an inline callback the first evaluation of the loop condition
\* already leaves the loop, so no yield is executed; and check_wait does
\* not return unless the callback was invoked.
C5_ReturnsIffInvoked ==
  /\ \A c \in Calls : (invoked[c] > 0) ~> Returned(c)
  /\ [](\A c \in Calls :
          /\ RanInline(c) /\ pc[c] = "poll" => await_complete[c]
          /\ pc[c] \in {"return", "done"} => invoked[c] > 0 /\ CallbackReturned(c))
  /\ [][\A c \in Calls :
          RanInline(c) /\ pc[c] = "poll" /\ Poll(c) => pc'[c] = "return"]_vars

\* C5 witness: a call served inline has returned while the other one, whose
\* job has not invoked the callback yet, is still in its polling loop
C5_Witness ==
  /\ Returned(1) /\ RanInline(1)
  /\ pc[2] = "poll" /\ job[2] = "determined" /\ invoked[2] = 0

\* C6: concurrent check_wait calls on one checker do not mix their results:
\* each returns the outcome of its own check; and no step of check_wait
\* changes alias_strategy_, basic_block_ghosts_, nacl_ or fixpoint_up_.
C6_NoCrossContamination ==
  /\ [](\A c \in Calls : Returned(c) => ret[c] = outcome[c])
  /\ [][\A c \in Calls : CallerStep(c) \/ JobStep(c) => UNCHANGED cfgvars]_vars

\* C6 witness: both calls have returned, each served by its own job, with
\* different results
C6_Witness ==
  /\ Returned(1) /\ Returned(2)
  /\ job[1] = "called" /\ job[2] = "called"
  /\ ret[1].verified /\ ret[2].has_ceg

(* ----------------------------- ArmMemory ------------------------------- *)

\* the two memories of one check: the target's and the rewrite's
Mems == {"target", "rewrite"}

\* the symbolic addresses, values, sizes and line numbers the callers pass
Addresses == {[reg |-> "rdi"], [reg |-> "rsi"]}
Values == {[reg |-> "rax"]}
Sizes == {1, 8}
Lines == {0}

\* SymBitVector::tmp_var(width) and SymArray::tmp_var(64, 8): the n-th
\* temporary, a variable that no earlier call has returned
BitVectorTmpVar(n, width) == [tmp |-> n, width |-> width]
ArrayTmpVar(n) == [tmp |-> n, key |-> 64, val |-> 8]

\* a == b on symbolic values, and SymBool::_false()
SymEq(a, b) == [op |-> "==", lhs |-> a, rhs |-> b]
SymFalse == [op |-> "false"]

\* std::vector push_back
push_front(v, e) == <<e>> \o v
push_back(v, e) == Append(v, e)

\* std::map operator[] followed by an assignment
MapPutDropsOthers(f, k, v) == [x \in {k} |-> v]
MapPut(f, k, v) == [x \in DOMAIN f \cup {k} |-> IF x = k THEN v ELSE f[x]]

\* ArmMemory(solver), for the object that takes temporaries n and n + 1
ArmInitAtOneVariable(m, n) ==
  /\ heap_[m] = ArrayTmpVar(n)
  /\ start_variable_[m] = heap_[m]
  /\ final_heap_[m] = heap_[m]
  /\ finalize_[m] = FALSE
  /\ constraints_[m] = <<>>
  /\ access_list_[m] = <<>>
  /\ accesses_[m] = <<>>
ArmInitAt(m, n) ==
  /\ heap_[m] = ArrayTmpVar(n)
  /\ start_variable_[m] = heap_[m]
  /\ final_heap_[m] = ArrayTmpVar(n + 1)
  /\ finalize_[m] = FALSE
  /\ constraints_[m] = <<>>
  /\ access_list_[m] = <<>>
  /\ accesses_[m] = <<>>

ArmInit ==
  /\ heap_ \in [Mems -> {ArrayTmpVar(n) : n \in 0..3}]
  /\ start_variable_ \in [Mems -> {ArrayTmpVar(n) : n \in 0..3}]
  /\ final_heap_ \in [Mems -> {ArrayTmpVar(n) : n \in 0..3}]
  /\ finalize_ \in [Mems -> BOOLEAN]
  /\ constraints_ = [m \in Mems |-> <<>>]
  /\ access_list_ = [m \in Mems |-> <<>>]
  /\ accesses_ = [m \in Mems |-> <<>>]
  /\ ArmInitAt("target", 0)
  /\ ArmInitAt("rewrite", 2)
  /\ tmp_count = 4
  /\ arm_call = [op |-> "ArmMemory", m |-> "rewrite", args |-> <<>>]
  /\ arm_ret = <<>>
  /\ finalize_called = [m \in Mems |-> FALSE]

get_end_variable(m) == final_heap_[m]

get_start_variable(m) == start_variable_[m]

get_variable_inverted(m) ==
  IF finalize_[m] THEN get_start_variable(m) ELSE get_end_variable(m)
get_variable(m) ==
  IF finalize_[m] THEN get_end_variable(m) ELSE get_start_variable(m)

\* the values the reads of m have returned so far
ReadValues(m) ==
  {accesses_[m][i].value :
     i \in {k \in 1..Len(accesses_[m]) : ~accesses_[m][k].write}}

\* what the caller of m passes as an address: a register, or a pointer
\* loaded from memory, which is the value an earlier read returned
AddressArgs(m) == Addresses \cup ReadValues(m)

\* the number of accesses recorded so far
Recorded == Len(accesses_["target"]) + Len(accesses_["rewrite"])

GetEndVariable(m) ==
  /\ arm_call' = [op |-> "get_end_variable", m |-> m, args |-> <<>>]
  /\ arm_ret' = get_end_variable(m)
  /\ UNCHANGED <<memvars, tmp_count, finalize_called, checkvars, othervars>>

GetStartVariable(m) ==
  /\ arm_call' = [op |-> "get_start_variable", m |-> m, args |-> <<>>]
  /\ arm_ret' = get_start_variable(m)
  /\ UNCHANGED <<memvars, tmp_count, finalize_called, checkvars, othervars>>

GetVariable(m) ==
  /\ arm_call' = [op |-> "get_variable", m |-> m, args |-> <<>>]
  /\ arm_ret' = get_variable(m)
  /\ UNCHANGED <<memvars, tmp_count, finalize_called, checkvars, othervars>>

\* the value finalize_heap assigns to finalize_
finalize_toggled(old) == ~old
finalize_value(old) == TRUE

\* a finalize_heap that also drops what was recorded
FinalizeHeapClears(m) ==
  /\ finalize_' = [finalize_ EXCEPT ![m] = TRUE]
  /\ finalize_called' = [finalize_called EXCEPT ![m] = TRUE]
  /\ constraints_' = [constraints_ EXCEPT ![m] = <<>>]
  /\ access_list_' = [access_list_ EXCEPT ![m] = <<>>]
  /\ accesses_' = [accesses_ EXCEPT ![m] = <<>>]
  /\ arm_call' = [op |-> "finalize_heap", m |-> m, args |-> <<>>]
  /\ arm_ret' = <<>>
  /\ UNCHANGED <<heap_, start_variable_, final_heap_, tmp_count, checkvars, othervars>>
FinalizeHeap(m) ==
  /\ finalize_' = [finalize_ EXCEPT ![m] = finalize_value(@)]
  /\ finalize_called' = [finalize_called EXCEPT ![m] = TRUE]
  /\ arm_call' = [op |-> "finalize_heap", m |-> m, args |-> <<>>]
  /\ arm_ret' = <<>>
  /\ UNCHANGED <<heap_, start_variable_, final_heap_, constraints_,
                 access_list_, accesses_, tmp_count, checkvars, othervars>>

\* the MemAccess a write pushes: lines 274-278 (cell, cell_offset, is_other
\* and index are not assigned here)
WriteAccessUntagged(address, value, size) ==
  [address |-> address, value |-> value, size |-> size, write |-> FALSE]
WriteAccess(address, value, size) ==
  [address |-> address, value |-> value, size |-> size, write |-> TRUE]

Write(m, address, value, size, line_no) ==
  /\ Recorded < MaxAccesses
  /\ arm_call' = [op |-> "write", m |-> m,
                  args |-> [address |-> address, value |-> value,
                            size |-> size]]
  /\ LET access_var == BitVectorTmpVar(tmp_count, 64) IN
       /\ constraints_' =
            [constraints_ EXCEPT ![m] = push_back(@, SymEq(access_var, address))]
       /\ access_list_' =
            [access_list_ EXCEPT ![m] = MapPut(@, access_var, size)]
  /\ accesses_' =
       [accesses_ EXCEPT ![m] = push_back(@, WriteAccess(address, value, size))]
  /\ tmp_count' = tmp_count + 1
  /\ arm_ret' = SymFalse
  /\ UNCHANGED <<heap_, start_variable_, final_heap_, finalize_,
                 finalize_called, checkvars, othervars>>

\* the MemAccess a read pushes: lines 290-294
ReadAccessAsWrite(address, value, size) ==
  [address |-> address, value |-> value, size |-> size, write |-> TRUE]
ReadAccess(address, value, size) ==
  [address |-> address, value |-> value, size |-> size, write |-> FALSE]

Read(m, address, size, line_no) ==
  /\ Recorded < MaxAccesses
  /\ arm_call' = [op |-> "read", m |-> m,
                  args |-> [address |-> address, size |-> size]]
  /\ LET access_var == BitVectorTmpVar(tmp_count, 64)
         value == BitVectorTmpVar(tmp_count + 1, size)
     IN
       /\ constraints_' =
            [constraints_ EXCEPT ![m] = push_back(@, SymEq(access_var, address))]
       /\ access_list_' =
            [access_list_ EXCEPT ![m] = MapPut(@, access_var, size)]
       /\ accesses_' =
            [accesses_ EXCEPT ![m] = push_back(@, ReadAccess(address, value, size))]
       /\ arm_ret' = <<value, SymFalse>>
  /\ tmp_count' = tmp_count + 2
  /\ UNCHANGED <<heap_, start_variable_, final_heap_, finalize_,
                 finalize_called, checkvars, othervars>>

\* get_variable() == other.get_variable()
equality_with_start(m, other) == SymEq(get_variable(m), get_start_variable(other))
equality_constraint(m, other) == SymEq(get_variable(m), get_variable(other))

EqualityConstraint(m, other) ==
  /\ arm_call' = [op |-> "equality_constraint", m |-> m, args |-> [other |-> other]]
  /\ arm_ret' = equality_constraint(m, other)
  /\ UNCHANGED <<memvars, tmp_count, finalize_called, checkvars, othervars>>

get_constraints(m) == constraints_[m]

GetConstraints(m) ==
  /\ arm_call' = [op |-> "get_constraints", m |-> m, args |-> <<>>]
  /\ arm_ret' = get_constraints(m)
  /\ UNCHANGED <<memvars, tmp_count, finalize_called, checkvars, othervars>>

get_access_list(m) == access_list_[m]

GetAccessList(m) ==
  /\ arm_call' = [op |-> "get_access_list", m |-> m, args |-> <<>>]
  /\ arm_ret' = get_access_list(m)
  /\ UNCHANGED <<memvars, tmp_count, finalize_called, checkvars, othervars>>

ArmNext ==
  \E m \in Mems :
    \/ GetEndVariable(m)
    \/ GetStartVariable(m)
    \/ GetVariable(m)
    \/ FinalizeHeap(m)
    \/ \E a \in AddressArgs(m), v \in Values, s \in Sizes, l \in Lines :
         Write(m, a, v, s, l)
    \/ \E a \in AddressArgs(m), s \in Sizes, l \in Lines : Read(m, a, s, l)
    \/ \E other \in Mems : EqualityConstraint(m, other)
    \/ GetConstraints(m)
    \/ GetAccessList(m)

(* ------------------------ ArmMemory: the claims ------------------------ *)

\* the access log, the constraint list and the access list of m
Recording(m) == <<accesses_[m], constraints_[m], access_list_[m]>>

\* the timeline variable the finalized flag of m selects
Selected(m) == IF finalize_[m] THEN final_heap_[m] ELSE start_variable_[m]

\* the temporaries that occur in the fields of the two memories
UsedVars ==
  UNION { {heap_[m], start_variable_[m], final_heap_[m]}
            \cup {constraints_[m][i].lhs : i \in 1..Len(constraints_[m])}
            \cup DOMAIN access_list_[m]
            \cup {accesses_[m][i].value : i \in 1..Len(accesses_[m])}
          : m \in Mems }

\* C7: before the first finalize_heap call on a memory get_variable
\* returns its start variable, after it the end variable; the flag never
\* goes back to false, whatever is called, and a finalize_heap on a
\* finalized memory changes none of its fields.
C7_FinalizeSwitchesOneWay ==
  /\ [](\A m \in Mems :
          get_variable(m) =
            IF finalize_called[m] THEN final_heap_[m] ELSE start_variable_[m])
  /\ [](arm_call.op = "get_variable" =>
          arm_ret = IF finalize_called[arm_call.m]
                      THEN final_heap_[arm_call.m]
                      ELSE start_variable_[arm_call.m])
  /\ [][\A m \in Mems : finalize_[m] => finalize_'[m]]_vars
  /\ [][\A m \in Mems : FinalizeHeap(m) /\ finalize_[m] => UNCHANGED memvars]_vars

\* C7 witness: get_variable has just returned the end variable of the
\* target, finalized after an access was recorded, while the rewrite is
\* still on its start variable
C7_Witness ==
  /\ arm_call.op = "get_variable" /\ arm_call.m = "target"
  /\ finalize_called["target"] /\ ~finalize_called["rewrite"]
  /\ arm_ret = final_heap_["target"] /\ arm_ret # start_variable_["target"]
  /\ get_variable("rewrite") = start_variable_["rewrite"]
  /\ Len(accesses_["target"]) > 0

C10_WriteRecordsOneAccess ==
  [][\A m \in Mems, v \in Values, s \in Sizes, l \in Lines :
     \A a \in AddressArgs(m) :
       Write(m, a, v, s, l) =>
         /\ accesses_'[m] =
              Append(accesses_[m],
                     [address |-> a, value |-> v, size |-> s, write |-> TRUE])
         /\ Len(constraints_'[m]) = Len(constraints_[m]) + 1
         /\ SubSeq(constraints_'[m], 1, Len(constraints_[m])) = constraints_[m]
         /\ LET k == constraints_'[m][Len(constraints_'[m])] IN
              k.op = "==" /\ k.rhs = a /\ k.lhs \notin UsedVars
         /\ arm_ret' = SymFalse
         /\ UNCHANGED <<finalize_, start_variable_, final_heap_>>
         /\ \A o \in Mems \ {m} : UNCHANGED Recording(o)]_vars

\* C10 witness: the second write of a memory has just returned, after a
\* first one of another size at the other address
C10_Witness ==
  \E m \in Mems :
    /\ arm_call.op = "write" /\ arm_call.m = m /\ arm_ret = SymFalse
    /\ Len(accesses_[m]) = 2 /\ Len(constraints_[m]) = 2
    /\ accesses_[m][1].write /\ accesses_[m][2].write
    /\ accesses_[m][1].address # accesses_[m][2].address
    /\ accesses_[m][1].size # accesses_[m][2].size

\* the values returned by the reads of the two memories
AllReadValues == UNION {ReadValues(m) : m \in Mems}

\* constraint k mentions the symbolic value v
Mentions(k, v) == k.lhs = v \/ k.rhs = v

\* C11 as claimed: whatever reads and writes were called, no constraint
\* that get_constraints returns mentions a value returned by a read.
C11_ReadValueNeverMentioned ==
  \A m \in Mems : \A i \in 1..Len(get_constraints(m)) :
    \A v \in AllReadValues : ~Mentions(get_constraints(m)[i], v)

\* C11 amended: a read returns a placeholder value not in use before (so
\* different from the value of every earlier read of either memory) with the
\* constant false, appends one record tagged as a read that carries the
\* address, the size and that value, and appends one constraint, which
\* does not mention the value; a constraint mentions a read's value only
\* as the address the caller passed to a later read or write.
C11_ReadReturnsFreshUnconstrained ==
  /\ [][\A m \in Mems, s \in Sizes, l \in Lines : \A a \in AddressArgs(m) :
         Read(m, a, s, l) =>
           /\ arm_ret'[2] = SymFalse
           /\ arm_ret'[1] \notin UsedVars \cup AllReadValues
           /\ accesses_'[m] =
                Append(accesses_[m],
                       [address |-> a, value |-> arm_ret'[1], size |-> s,
                        write |-> FALSE])
           /\ Len(constraints_'[m]) = Len(constraints_[m]) + 1
           /\ SubSeq(constraints_'[m], 1, Len(constraints_[m])) = constraints_[m]
           /\ ~Mentions(constraints_'[m][Len(constraints_'[m])], arm_ret'[1])
           /\ \A o \in Mems \ {m} : UNCHANGED Recording(o)]_vars
  /\ [](\A m \in Mems : \A i \in 1..Len(get_constraints(m)) :
          \A v \in AllReadValues :
            Mentions(get_constraints(m)[i], v) =>
              /\ get_constraints(m)[i].rhs = v
              /\ accesses_[m][i].address = v
              /\ \E j \in 1..(i - 1) :
                    ~accesses_[m][j].write /\ accesses_[m][j].value = v)

\* C11 witness: a read has just returned whose address was the value an
\* earlier read of the same memory had returned
C11_Witness ==
  \E m \in Mems :
    /\ arm_call.op = "read" /\ arm_call.m = m
    /\ Len(accesses_[m]) = 2
    /\ ~accesses_[m][1].write /\ ~accesses_[m][2].write
    /\ accesses_[m][2].address = accesses_[m][1].value
    /\ arm_ret[1] = accesses_[m][2].value
    /\ arm_ret[1] # accesses_[m][1].value
    /\ get_constraints(m)[2].rhs = accesses_[m][1].value

\* the placeholder address variable of the k-th access of m
AccessVar(m, k) == constraints_[m][k].lhs

\* C12: after any reads and writes the access list of a memory has, for
\* every recorded access, an entry under that access's address variable
\* whose size is the size passed to the call, one entry per access;
\* a read or write adds the entry with its size argument and changes no
\* other entry; get_access_list returns that map.
C12_AccessListHoldsEverySize ==
  /\ [](\A m \in Mems :
          /\ \A k \in 1..Len(accesses_[m]) :
                /\ AccessVar(m, k) \in DOMAIN get_access_list(m)
                /\ get_access_list(m)[AccessVar(m, k)] = accesses_[m][k].size
          /\ Cardinality(DOMAIN get_access_list(m)) = Len(accesses_[m]))
  /\ [](arm_call.op = "get_access_list" =>
          arm_ret = access_list_[arm_call.m])
  /\ [][\A m \in Mems, s \in Sizes :
         Len(accesses_'[m]) = Len(accesses_[m]) + 1
           /\ arm_call'.m = m /\ arm_call'.op \in {"read", "write"}
           /\ arm_call'.args.size = s =>
             /\ get_access_list(m)' =
                  MapPut(get_access_list(m),
                         constraints_'[m][Len(constraints_'[m])].lhs, s)
             /\ constraints_'[m][Len(constraints_'[m])].lhs
                  \notin DOMAIN get_access_list(m)]_vars

\* C12 witness: get_access_list has just returned two entries, one of each
\* size, for a memory that recorded a write of one size and a read of the
\* other
C12_Witness ==
  \E m \in Mems :
    /\ arm_call.op = "get_access_list" /\ arm_call.m = m
    /\ Len(accesses_[m]) = 2
    /\ accesses_[m][1].write /\ ~accesses_[m][2].write
    /\ accesses_[m][1].size # accesses_[m][2].size
    /\ Cardinality(DOMAIN arm_ret) = 2
    /\ arm_ret[AccessVar(m, 1)] = accesses_[m][1].size
    /\ arm_ret[AccessVar(m, 2)] = accesses_[m][2].size

\* C17: equality_constraint(other) also generates constraints: called on a
\* memory that recorded accesses, it leaves in the constraint list, for
\* get_constraints to return, more than the one address constraint per
\* access that read and write recorded.
C17_EqualityGeneratesConstraints ==
  [][\A m, o \in Mems :
       EqualityConstraint(m, o) /\ Len(accesses_[m]) > 0 =>
         Len(constraints_'[m]) > Len(accesses_'[m])]_vars

\* the step is a read or a write on m
AccessOn(m) == arm_call'.m = m /\ arm_call'.op \in {"read", "write"}

\* C18: the access log, the constraint list and the access list of a
\* memory are empty at construction; a read or write on it appends one
\* entry to the log and one to the constraint list, both for that call
\* (its address, its size, its tag), and adds one entry to the access
\* list; no other step changes the three; so the three sizes are the
\* number of calls, the k-th entries belong to the k-th call and every
\* earlier log is a prefix of every later one.
C18_OneEntryPerCallInOrder ==
  /\ [](\A m \in Mems :
          /\ Len(accesses_[m]) = Len(constraints_[m])
          /\ Len(accesses_[m]) = Cardinality(DOMAIN access_list_[m])
          /\ ~(\E k \in 1..Len(accesses_[m]) :
                 constraints_[m][k].rhs # accesses_[m][k].address))
  /\ [](arm_call.op = "ArmMemory" =>
          \A m \in Mems : Recording(m) = <<(<<>>), (<<>>), (<<>>)>>)
  /\ [][\A m \in Mems :
         IF AccessOn(m)
           THEN /\ Len(accesses_'[m]) = Len(accesses_[m]) + 1
                /\ SubSeq(accesses_'[m], 1, Len(accesses_[m])) = accesses_[m]
                /\ SubSeq(constraints_'[m], 1, Len(constraints_[m]))
                     = constraints_[m]
                /\ LET e == accesses_'[m][Len(accesses_'[m])] IN
                     /\ e.address = arm_call'.args.address
                     /\ e.size = arm_call'.args.size
                     /\ e.write <=> arm_call'.op = "write"
           ELSE UNCHANGED Recording(m)]_vars

\* C18 witness: a memory recorded a read and then a write at another
\* address; the log and the constraint list hold them in that order
C18_Witness ==
  \E m \in Mems :
    /\ arm_call.op = "write" /\ arm_call.m = m
    /\ Len(accesses_[m]) = 2 /\ Len(constraints_[m]) = 2
    /\ Cardinality(DOMAIN access_list_[m]) = 2
    /\ ~accesses_[m][1].write /\ accesses_[m][2].write
    /\ accesses_[m][1].address # accesses_[m][2].address
    /\ accesses_[m][2].address = arm_call.args.address
    /\ constraints_[m][1].rhs = accesses_[m][1].address
    /\ constraints_[m][2].rhs = accesses_[m][2].address

\* C19: each memory keeps the two timeline variables its constructor made
\* (the target the temporaries 0 and 1, the rewrite 2 and 3), which differ:
\* no step changes them nor what get_start_variable and get_end_variable
\* return; read and write leave the finalized flag of both memories as it
\* was; and a memory on which finalize_heap was not called is not
\* finalized, the freshly constructed one included.
C19_TimelineVariablesFixed ==
  /\ [](/\ get_start_variable("target") = ArrayTmpVar(0)
        /\ get_end_variable("target") = ArrayTmpVar(1)
        /\ get_start_variable("rewrite") = ArrayTmpVar(2)
        /\ get_end_variable("rewrite") = ArrayTmpVar(3))
  /\ [](\A m \in Mems :
          /\ get_start_variable(m) # get_end_variable(m)
          /\ ~finalize_called[m] => ~finalize_[m])
  /\ [](/\ arm_call.op = "get_start_variable" =>
             arm_ret = start_variable_[arm_call.m]
        /\ arm_call.op = "get_end_variable" =>
             arm_ret = final_heap_[arm_call.m])
  /\ [][UNCHANGED <<start_variable_, final_heap_>>]_vars
  /\ [][arm_call'.op \in {"read", "write"} => UNCHANGED finalize_]_vars

\* C19 witness: get_end_variable has just returned the end variable of a
\* memory that recorded a read and a write and was then finalized
C19_Witness ==
  \E m \in Mems :
    /\ arm_call.op = "get_end_variable" /\ arm_call.m = m
    /\ Len(accesses_[m]) = 2
    /\ ~accesses_[m][1].write /\ accesses_[m][2].write
    /\ finalize_[m]
    /\ arm_ret = final_heap_[m] /\ arm_ret # start_variable_[m]

(* ------------------------------ is_jump -------------------------------- *)

JumpType == {"NONE", "FALL_THROUGH", "JUMP"}

Blocks == 0..MaxBlock

\* What is_jump looks up in a Cfg: whether a block ends in a control
\* transfer instruction (TRUE) or runs into the block that follows it.
Cfgs == [Blocks -> BOOLEAN]

\* The paths through cfg, as sequences of block ids: a block without a
\* control transfer is followed by the lexically following block; a block
\* with one by its target, which may be any block.
CfgPaths(cfg) ==
  { P \in UNION { [1..n -> Blocks] : n \in 1..MaxPathLen } :
      \A k \in 1..(Len(P) - 1) : ~cfg[P[k]] => P[k + 1] = P[k] + 1 }

\* is_jump(cfg, start, P, i), with i counted from 0 as in the code: P[i]
\* there is P[i + 1] here.
is_jump_target_is_fallthrough(cfg, start, P, i) ==
  IF i + 1 = Len(P) THEN "NONE"
  ELSE IF ~cfg[P[i + 1]] THEN "NONE"
  ELSE IF P[i + 2] = P[i + 1] + 1 THEN "NONE"
  ELSE "JUMP"
is_jump(cfg, start, P, i) ==
  IF i + 1 = Len(P) THEN "NONE"
  ELSE IF ~cfg[P[i + 1]] THEN "NONE"
  ELSE IF P[i + 2] = P[i + 1] + 1 THEN "FALL_THROUGH"
  ELSE "JUMP"

\* the arguments of the is_jump calls
JumpArgs ==
  UNION { { [cfg |-> cfg, start |-> start, P |-> P, i |-> i] :
              start \in Blocks, P \in CfgPaths(cfg), i \in 0..(MaxPathLen - 1) }
          : cfg \in Cfgs }

\* no call of is_jump has returned yet
JumpInit ==
  jump = [call |-> [cfg |-> [b \in Blocks |-> FALSE], start |-> 0,
                    P |-> <<0>>, i |-> 0],
          ret |-> "pending"]

\* a call of is_jump with any path and any position in it
JumpInitAny ==
  jump \in {[call |-> c, ret |-> "pending"] :
             c \in {a \in JumpArgs : a.i < Len(a.P)}}

IsJump ==
  /\ jump_ret = "pending"
  /\ jump' = [jump EXCEPT !.ret = is_jump(jump_call.cfg, jump_call.start,
                                           jump_call.P, jump_call.i)]
  /\ UNCHANGED <<checkvars, armvars, racevars, cellvars, confvars>>

JumpNext == IsJump

\* the path of the last is_jump call has a step after position i, and the
\* block at position i ends in a control transfer
TransferFollows ==
  /\ jump_call.i + 1 < Len(jump_call.P)
  /\ jump_call.cfg[jump_call.P[jump_call.i + 1]]

\* the step after position i is the lexically following block
NextIsLexical == jump_call.P[jump_call.i + 2] = jump_call.P[jump_call.i + 1] + 1

ConfInit ==
  conf = [call |-> [op |-> "ObligationChecker", o |-> "oc", arg |-> None],
          ret |-> None,
          last_set |-> [o \in Checkers |-> "none"],
          made_by |-> [o \in Checkers |-> "default"]]

\* line 108: alias_strategy_ = as
set_alias_strategy_all(o, as) == [p \in Checkers |-> as]
set_alias_strategy(o, as) == [alias_strategy_ EXCEPT ![o] = as]

SetAliasStrategy(o, as) ==
  /\ alias_strategy_' = set_alias_strategy(o, as)
  /\ conf' = [conf EXCEPT
                !.call = [op |-> "set_alias_strategy", o |-> o,
                          arg |-> [as |-> as]],
                !.ret = [this |-> o],
                !.last_set = [last_set EXCEPT ![o] = as]]
  /\ UNCHANGED <<basic_block_ghosts_, nacl_, fixpoint_up_, waitvars,
                 implvars, armvars, jumpvars, racevars, cellvars>>

\* line 113: return alias_strategy_
get_alias_strategy(o) == alias_strategy_[o]

GetAliasStrategy(o) ==
  /\ conf' = [conf EXCEPT
                !.call = [op |-> "get_alias_strategy", o |-> o, arg |-> None],
                !.ret = [as |-> get_alias_strategy(o)]]
  /\ UNCHANGED <<cfgvars, waitvars, implvars, armvars, jumpvars, racevars,
                 cellvars>>

\* line 117: fixpoint_up_ = b
SetFixpointUp(o, b) ==
  /\ fixpoint_up_' = [fixpoint_up_ EXCEPT ![o] = b]
  /\ conf' = [conf EXCEPT
                !.call = [op |-> "set_fixpoint_up", o |-> o, arg |-> [b |-> b]],
                !.ret = [this |-> o]]
  /\ UNCHANGED <<alias_strategy_, basic_block_ghosts_, nacl_, waitvars,
                 implvars, armvars, jumpvars, racevars, cellvars>>

\* line 130: nacl_ = b
SetNacl(o, b) ==
  /\ nacl_' = [nacl_ EXCEPT ![o] = b]
  /\ conf' = [conf EXCEPT
                !.call = [op |-> "set_nacl", o |-> o, arg |-> [b |-> b]],
                !.ret = [this |-> o]]
  /\ UNCHANGED <<alias_strategy_, basic_block_ghosts_, fixpoint_up_, waitvars,
                 implvars, armvars, jumpvars, racevars, cellvars>>

\* line 137: basic_block_ghosts_ = b
SetBasicBlockGhosts(o, b) ==
  /\ basic_block_ghosts_' = [basic_block_ghosts_ EXCEPT ![o] = b]
  /\ conf' = [conf EXCEPT
                !.call = [op |-> "set_basic_block_ghosts", o |-> o, arg |-> [b |-> b]],
                !.ret = [this |-> o]]
  /\ UNCHANGED <<alias_strategy_, nacl_, fixpoint_up_, waitvars,
                 implvars, armvars, jumpvars, racevars, cellvars>>

\* lines 97-100: the field f of the new checker dst, copied from oc
CopyField(f, dst, oc, default) == [f EXCEPT ![dst] = f[oc]]

\* ObligationChecker(const ObligationChecker& oc): a new checker, held in
\* dst, is made from oc; the strategy last set is the one oc carried
CopyConstruct(dst, oc) ==
  /\ dst # oc
  /\ basic_block_ghosts_' = CopyField(basic_block_ghosts_, dst, oc, TRUE)
  /\ nacl_' = CopyField(nacl_, dst, oc, FALSE)
  /\ fixpoint_up_' = CopyField(fixpoint_up_, dst, oc, FALSE)
  /\ alias_strategy_' = CopyField(alias_strategy_, dst, oc, "FLAT")
  /\ conf' = [call |-> [op |-> "ObligationChecker", o |-> dst,
                        arg |-> [oc |-> oc]],
              ret |-> None,
              last_set |-> [last_set EXCEPT ![dst] = last_set[oc]],
              made_by |-> [made_by EXCEPT ![dst] = "copy"]]
  /\ UNCHANGED <<waitvars, implvars, armvars, jumpvars, racevars, cellvars>>

ConfNext ==
  \/ \E o \in Checkers :
       \/ \E as \in AliasStrategy : SetAliasStrategy(o, as)
       \/ GetAliasStrategy(o)
       \/ \E b \in BOOLEAN :
            SetFixpointUp(o, b) \/ SetNacl(o, b) \/ SetBasicBlockGhosts(o, b)
  \/ CopyConstruct("copy", "oc")

\* the four settings of checker o
Settings(o) ==
  <<alias_strategy_[o], nacl_[o], basic_block_ghosts_[o], fixpoint_up_[o]>>

\* the four settings of checker o after the step
SettingsAfter(o) ==
  <<alias_strategy_'[o], nacl_'[o], basic_block_ghosts_'[o], fixpoint_up_'[o]>>

\* the checker the last configuration call was made on, and the other one
Callee == conf_call'.o
Others == Checkers \ {conf_call'.o}

\* C20: a newly constructed checker has strategy FLAT, nacl off, basic
\* block ghosts on, fixpoint_up off; get_alias_strategy returns the
\* strategy of the most recent set_alias_strategy in the checker's
\* history (FLAT if none); each setter sets its own field of its own
\* checker to its argument and changes nothing else; the copy constructor
\* gives the new checker the four settings of its source and leaves the
\* source alone; so setters called later on one do not affect the other.
C20_SettersAndCopy ==
  /\ [](conf_call.op = "ObligationChecker" /\ conf_call.arg = None =>
          \A o \in Checkers : Settings(o) = <<"FLAT", FALSE, TRUE, FALSE>>)
  /\ [](\A o \in Checkers :
          get_alias_strategy(o) =
            IF last_set[o] = "none" THEN "FLAT" ELSE last_set[o])
  /\ [](conf_call.op = "get_alias_strategy" =>
          conf_ret.as = IF last_set[conf_call.o] = "none"
                          THEN "FLAT" ELSE last_set[conf_call.o])
  /\ [][/\ \A o \in Others : SettingsAfter(o) = Settings(o)
        /\ conf_call'.op = "set_alias_strategy" =>
             /\ alias_strategy_'[Callee] = conf_call'.arg.as
             /\ UNCHANGED <<nacl_, basic_block_ghosts_, fixpoint_up_>>
        /\ conf_call'.op = "set_nacl" =>
             /\ nacl_'[Callee] = conf_call'.arg.b
             /\ UNCHANGED <<alias_strategy_, basic_block_ghosts_, fixpoint_up_>>
        /\ conf_call'.op = "set_basic_block_ghosts" =>
             /\ basic_block_ghosts_'[Callee] = conf_call'.arg.b
             /\ UNCHANGED <<alias_strategy_, nacl_, fixpoint_up_>>
        /\ conf_call'.op = "set_fixpoint_up" =>
             /\ fixpoint_up_'[Callee] = conf_call'.arg.b
             /\ UNCHANGED <<alias_strategy_, nacl_, basic_block_ghosts_>>
        /\ conf_call'.op = "get_alias_strategy" => UNCHANGED cfgvars
        /\ conf_call'.op = "ObligationChecker" =>
             SettingsAfter(Callee) = Settings(conf_call'.arg.oc)]_vars

\* C20 witness: get_alias_strategy has just returned, on a checker copied
\* from another whose strategy had been set, a strategy set on the copy
\* afterwards; the two checkers differ in strategy and in nacl
C20_Witness ==
  /\ conf_call.op = "get_alias_strategy" /\ conf_call.o = "copy"
  /\ made_by["copy"] = "copy"
  /\ conf_ret.as = "ARM" /\ last_set["copy"] = "ARM"
  /\ alias_strategy_["oc"] = "ARMS_RACE"
  /\ nacl_["copy"] /\ ~nacl_["oc"]

(* ------------------------------ ARMS_RACE ------------------------------ *)

\* the two strategies ARMS_RACE runs in parallel
Strategies == {"ARM", "FLAT"}

\* An obligation, as far as the race depends on it: whether the target
\* path and the rewrite path are equivalent, and which strategy reaches a
\* conclusion on it (the other ends in an internal error).
Obligations == [equivalent : BOOLEAN, conclusive : [Strategies -> BOOLEAN]]

\* the response of strategy s to obligation ob: sound, so verified only
\* for equivalent paths and a counterexample only for different ones
Response(ob, s) ==
  IF ~ob.conclusive[s] THEN "error"
  ELSE IF ob.equivalent THEN "verified" ELSE "ceg"

\* the responses the race accepts from the strategy that answers first
SoundAny(resp) == TRUE
Sound(resp) == resp \in {"verified", "ceg"}

RaceInit ==
  race = [ob |-> [equivalent |-> TRUE,
                  conclusive |-> [s \in Strategies |-> TRUE]],
          pc |-> [s \in Strategies |-> "idle"],
          resp |-> [s \in Strategies |-> "none"],
          result |-> "none",
          invoked |-> 0]

\* check, with ARMS_RACE selected: both strategies are started on the
\* obligation (a checker runs one race at a time)
RaceCheck(ob) ==
  /\ alias_strategy_["oc"] = "ARMS_RACE"
  /\ \A s \in Strategies : race_pc[s] \in {"idle", "done", "discarded"}
  /\ race' = [ob |-> ob,
              pc |-> [s \in Strategies |-> "running"],
              resp |-> [s \in Strategies |-> "none"],
              result |-> "none",
              invoked |-> 0]
  /\ UNCHANGED <<checkvars, armvars, jumpvars, cellvars, confvars>>

\* the run of strategy s comes to its response
StrategyRespond(s) ==
  /\ race_pc[s] = "running"
  /\ race' = [race EXCEPT !.resp[s] = Response(race_in, s),
                          !.pc[s] = "responded"]
  /\ UNCHANGED <<checkvars, armvars, jumpvars, cellvars, confvars>>

\* The response of s is accepted and passed to the callback: it is the
\* first sound one, or no sound one can come any more.
Accept(s) ==
  /\ race_pc[s] = "responded"
  /\ race_result = "none"
  /\ \/ Sound(race_resp[s])
     \/ \A t \in Strategies : race_resp[t] # "none" /\ ~Sound(race_resp[t])
  /\ race' = [race EXCEPT !.result = race_resp[s],
                          !.invoked = race_invoked + 1,
                          !.pc[s] = "done"]
  /\ UNCHANGED <<checkvars, armvars, jumpvars, cellvars, confvars>>

\* the other strategy's response was accepted: the work of s, in flight
\* or finished, is discarded
Discard(s) ==
  /\ race_pc[s] \in {"running", "responded"}
  /\ race_result # "none"
  /\ race' = [race EXCEPT !.pc[s] = "discarded"]
  /\ UNCHANGED <<checkvars, armvars, jumpvars, cellvars, confvars>>

StrategyStep(s) == StrategyRespond(s) \/ Accept(s) \/ Discard(s)

RaceNext ==
  \/ \E as \in AliasStrategy : SetAliasStrategy("oc", as)
  \/ \E ob \in Obligations : RaceCheck(ob)
  \/ \E s \in Strategies : StrategyStep(s)

\* the obligation of the race is one that strategy s proves
Proves(s) == race_in.equivalent /\ race_in.conclusive[s]

\* a race is under way or over
Racing == \A s \in Strategies : race_pc[s] # "idle"

\* C14: in a race of ARM and FLAT on one obligation, whenever at least one
\* of the two proves it the result delivered is verified, whichever of the
\* two responds first and whatever the other responds, and it is
\* delivered (both runs scheduled fairly); the callback is invoked once,
\* with a response one of the two gave; once the result is delivered no
\* step of the losing run changes it or invokes the callback, and no
\* run changes anything but the race's own state.
C14_RaceAcceptsFirstSound ==
  /\ [](race_result # "none" =>
          /\ race_invoked = 1
          /\ \E s \in Strategies : race_resp[s] = race_result
          /\ (\E s \in Strategies : Proves(s)) => race_result = "verified")
  /\ \A s \in Strategies :
       (Racing /\ Proves(s)) ~> (race_result = "verified")
  /\ [][\A s \in Strategies :
         /\ StrategyStep(s) =>
              UNCHANGED <<race_in, checkvars, armvars, jumpvars, cellvars,
                          confvars>>
         /\ StrategyStep(s) /\ race_result # "none" =>
              UNCHANGED <<race_result, race_invoked>>]_vars

\* C14 witness: FLAT proved an obligation on which ARM ended in an error;
\* the verified result was delivered and the work of ARM discarded
C14_Witness ==
  /\ race_resp["ARM"] = "error" /\ race_resp["FLAT"] = "verified"
  /\ race_result = "verified" /\ race_invoked = 1
  /\ race_pc["FLAT"] = "done" /\ race_pc["ARM"] = "discarded"

(* ------------------------ ArmMemory: the cells ------------------------- *)

\* the constant byte offsets the offset table can hold
Offsets == {-8, 0, 8}

\* An entry of access_offsets_ for a pair of accesses: absent from the
\* map (not known), or the known offset d of the later access from the
\* earlier one.
OffsetEntries ==
  {[known |-> FALSE, d |-> 0]} \cup {[known |-> TRUE, d |-> d] : d \in Offsets}

\* the pairs (j, i), j before i, of a list of n accesses
AccessPairs(n) == {p \in (1..n) \X (1..n) : p[1] < p[2]}

\* Cell(a), lines 324-330
Cell(a) ==
  [address |-> a, dirty |-> FALSE, other_dirty |-> FALSE,
   tmp_min_offset |-> 0, tmp_max_offset |-> 0]

\* a MemAccess of the combined list before cell assignment: cell and
\* cell_offset are not assigned yet (and are not read before they are)
Unassigned(index) == [index |-> index, cell |-> 0, cell_offset |-> 0]

CellInit ==
  assignment = [cells_ |-> <<>>, all_accesses_ |-> <<>>,
                access_offsets_ |-> <<>>, access_index |-> 0]

\* all_accesses_ and access_offsets_ are populated, with any number of
\* accesses up to the bound and any offset table
CellInitAny ==
  \E n \in 1..MaxCellAccesses :
    assignment \in
      {[cells_ |-> <<>>,
        all_accesses_ |-> [i \in 1..n |-> Unassigned(i)],
        access_offsets_ |-> t,
        access_index |-> 0] : t \in [AccessPairs(n) -> OffsetEntries]}

\* The offsets in cell c at which access i lies according to the offset
\* table and the accesses already assigned to c.
Reach(c, i) ==
  { all_accesses_[j].cell_offset + access_offsets_[<<j, i>>].d :
      j \in { k \in 1..(i - 1) :
                /\ all_accesses_[k].cell = c
                /\ access_offsets_[<<k, i>>].known } }

\* the cells access i can reach
Reachable(i) == {c \in 1..Len(cells_) : Reach(c, i) # {}}

\* cell c is reached by access i at a single offset
ConsistentAny(c, i) == TRUE
Consistent(c, i) == Cardinality(Reach(c, i)) = 1

Min(a, b) == IF a < b THEN a ELSE b
Max(a, b) == IF a < b THEN b ELSE a

\* access i is attached to the existing cell c at offset o, and the
\* recursion moves on to the access after i
Attach(i, c, o) ==
  assignment' =
    [assignment EXCEPT
       !.all_accesses_[i] = [@ EXCEPT !.cell = c, !.cell_offset = o],
       !.cells_[c] =
          [@ EXCEPT !.tmp_min_offset = Min(@, o), !.tmp_max_offset = Max(@, o)],
       !.access_index = i]

\* a new cell is allocated for access i, and the recursion moves on
Allocate(i) ==
  assignment' =
    [assignment EXCEPT
       !.all_accesses_[i] =
          [@ EXCEPT !.cell = Len(cells_) + 1, !.cell_offset = 0],
       !.cells_ = Append(cells_, Cell(i)),
       !.access_index = i]

\* recurse_cell_assignment(access_index), one access: attached to the one
\* cell it reaches at a single offset; given a new cell when it reaches
\* none, or reaches a cell at two offsets (it is not merged and left to
\* case splitting); when it reaches several cells, each at one offset,
\* either a new cell or any of these cells.
RecurseCellAssignment ==
  /\ access_index < Len(all_accesses_)
  /\ LET i == access_index + 1 IN
       IF Reachable(i) = {} THEN Allocate(i)
       ELSE IF \E c \in Reachable(i) : ~Consistent(c, i) THEN Allocate(i)
       ELSE IF Cardinality(Reachable(i)) = 1
         THEN \E c \in Reachable(i) : \E o \in Reach(c, i) : Attach(i, c, o)
       ELSE \/ Allocate(i)
            \/ \E c \in Reachable(i) : \E o \in Reach(c, i) : Attach(i, c, o)
  /\ UNCHANGED <<checkvars, armvars, jumpvars, racevars, confvars>>

CellNext == RecurseCellAssignment

\* the accesses that cell assignment has dealt with
Assigned == 1..access_index

\* C15: when cell assignment is over (and at every step of it, for the
\* accesses dealt with) every access of the combined list is assigned to
\* one cell of the cell list; two accesses in one cell for which the
\* offset table holds an offset d have cell offsets that differ by d;
\* and an access that reaches a cell at two different offsets is not put
\* into that cell.
C15_CellsRespectOffsets ==
  /\ [](\A i \in Assigned :
          /\ all_accesses_[i].cell \in 1..Len(cells_)
          /\ \A j \in 1..(i - 1) :
                all_accesses_[j].cell = all_accesses_[i].cell
                  /\ access_offsets_[<<j, i>>].known =>
                    all_accesses_[i].cell_offset - all_accesses_[j].cell_offset
                      = access_offsets_[<<j, i>>].d)
  /\ [][\A c \in 1..Len(cells_) :
         Cardinality(Reach(c, access_index + 1)) > 1 =>
           all_accesses_'[access_index + 1].cell # c]_vars
  /\ [][\A i \in Assigned : all_accesses_'[i] = all_accesses_[i]]_vars

\* C15 witness: of three accesses the second was attached to the cell of
\* the first, 8 bytes on, and the third, which the table puts at the
\* first's address and at the second's as well, got a cell of its own
C15_Witness ==
  /\ access_index = 3 /\ Len(all_accesses_) = 3
  /\ access_offsets_[<<1, 2>>].known /\ access_offsets_[<<1, 2>>].d = 8
  /\ access_offsets_[<<1, 3>>].known /\ access_offsets_[<<1, 3>>].d = 0
  /\ access_offsets_[<<2, 3>>].known /\ access_offsets_[<<2, 3>>].d = 0
  /\ all_accesses_[1].cell = 1 /\ all_accesses_[2].cell = 1
  /\ all_accesses_[2].cell_offset = 8
  /\ all_accesses_[3].cell = 2 /\ Len(cells_) = 2

(* --------------------------- specifications ---------------------------- *)

Init == CheckerInit /\ ArmInit /\ JumpInit /\ RaceInit /\ CellInit /\ ConfInit

Next == \E c \in Calls : CallerStep(c) \/ JobStep(c)

Spec == Init /\ [][Next]_vars

FairSpec ==
  Spec /\ \A c \in Calls : WF_vars(CallerStep(c)) /\ WF_vars(JobStep(c))

ArmSpec == Init /\ [][ArmNext]_vars

ConfSpec == Init /\ [][ConfNext]_vars

RaceSpec == Init /\ [][RaceNext]_vars

FairRaceSpec == RaceSpec /\ \A s \in Strategies : WF_vars(StrategyStep(s))

CellStart ==
  CheckerInit /\ ArmInit /\ JumpInit /\ RaceInit /\ CellInitAny /\ ConfInit

CellSpec == CellStart /\ [][CellNext]_vars

JumpStart ==
  CheckerInit /\ ArmInit /\ JumpInitAny /\ RaceInit /\ CellInit /\ ConfInit

JumpSpec == JumpStart /\ [][JumpNext]_vars

=============================================================================
